---- MODULE Spec2Model ----
(***************************************************************************)
(* Model of the lifting-diary workout data layer: the identity resolver,   *)
(* the /data helper functions (getUserWorkouts, getWorkoutById,            *)
(* createWorkout, updateWorkout, deleteWorkout), the zod schemas and the   *)
(* two server actions createWorkoutAction / updateWorkoutAction, and the   *)
(* WorkoutEditPage server component.                                       *)
(*                                                                         *)
(* A request runs in a slot of `req`; it suspends at every await on the    *)
(* storage engine, so each storage call is one step of the model.          *)
(***************************************************************************)
EXTENDS Integers, Sequences, FiniteSets, TLC

VARIABLES workouts, issued, creator, now, stale, req, form

vars == <<workouts, issued, creator, now, stale, req, form>>

\* ------------------------------------------------------------------ bounds
MaxWorkouts == 2
MaxClock == 1

\* --------------------------------------------------------------- identities
Users == {"user_A", "user_B"}
NoUser == "null"
Sessions == Users \cup {NoUser}
\* A request that has not called getCurrentUser() yet.
Unresolved == "unresolved"
Procs == {"r1", "r2"}
\* The slots that take requests when requests are served one at a time.
Serial == {"r1"}

\* ------------------------------------------------------- JavaScript values
\* A payload field is a JavaScript value: its type tag t, a text tag s, the
\* length of a string (len) and a number (num: a timestamp or a uuid index).
Undefined == [t |-> "undefined", s |-> "", len |-> 0, num |-> 0]
Str(text, n) == [t |-> "string", s |-> text, len |-> n, num |-> 0]
Num(k) == [t |-> "number", s |-> "", len |-> 0, num |-> k]
DateAt(ms) == [t |-> "date", s |-> "", len |-> 0, num |-> ms]
InvalidDate == [t |-> "date", s |-> "NaN", len |-> 0, num |-> 0]
Uuid(k) == [t |-> "string", s |-> "uuid", len |-> 36, num |-> k]
JsNull == [t |-> "null", s |-> "", len |-> 0, num |-> 0]

IsString(v) == v.t = "string"
IsUuid(v) == IsString(v) /\ v.s = "uuid"
IsValidDate(v) == v.t = "date" /\ v.s # "NaN"

\* ------------------------------------------------------------ error values
MsgUnauthorized == <<"Unauthorized">>
MsgNotFound == <<"Workout", "not", "found", "or", "unauthorized">>
MsgConnection == <<"connect", "ECONNREFUSED">>
MsgFailedQuery == <<"Failed", "query", "params", "unauthorized", "lift">>
MsgStaticStore == <<"Invariant", "static", "generation", "store", "missing">>

PermissionDenied == <<"You", "do", "not", "have", "permission", "to", "perform", "this", "action">>
ValidationFailed == <<"Validation", "failed">>
UnexpectedError == <<"An", "unexpected", "error", "occurred">>
NoMessage == <<>>

\* String.prototype.includes on a message, word by word.
Includes(msg, word) == \E i \in 1..Len(msg) : msg[i] = word

\* A thrown value: a ZodError, another Error, or a value that is no Error.
NoThrow == [cls |-> "none", message |-> NoMessage, issues |-> <<>>]
ErrorOf(msg) == [cls |-> "Error", message |-> msg, issues |-> <<>>]
ZodErrorOf(iss) == [cls |-> "ZodError", message |-> <<"zod">>, issues |-> iss]
NonError == [cls |-> "value", message |-> NoMessage, issues |-> <<>>]

\* ------------------------------------------------------------------ payloads
\* An action payload is `unknown`: obj says whether it is an object at all;
\* an object carries the fields id, name, startedAt and (unasked for) userId.
Payload(o, i, n, d, u) == [obj |-> o, id |-> i, name |-> n, startedAt |-> d, userId |-> u]
NotAnObject == Payload(FALSE, Undefined, Undefined, Undefined, Undefined)

Issue(p, m) == [path |-> p, message |-> m]

\* Variant: the name schema without .max(255).
NameIssues_NoMax(v) ==
    IF ~IsString(v) THEN <<Issue("name", "Invalid input: expected string")>>
    ELSE IF v.len < 1 THEN <<Issue("name", "Workout name is required")>>
    ELSE <<>>

\* Variant: the name schema without .min(1).
NameIssues_NoMin(v) ==
    IF ~IsString(v) THEN <<Issue("name", "Invalid input: expected string")>>
    ELSE IF v.len > 255 THEN <<Issue("name", "Workout name must be less than 255 characters")>>
    ELSE <<>>

\* z.string().min(1, ...).max(255, ...) on the key `name`
NameIssues(v) ==
    IF ~IsString(v) THEN <<Issue("name", "Invalid input: expected string")>>
    ELSE IF v.len < 1 THEN <<Issue("name", "Workout name is required")>>
    ELSE IF v.len > 255 THEN <<Issue("name", "Workout name must be less than 255 characters")>>
    ELSE <<>>

\* z.date() on the key `startedAt`
DateIssues(v) ==
    IF v.t # "date" THEN <<Issue("startedAt", "Invalid input: expected date")>>
    ELSE IF ~IsValidDate(v) THEN <<Issue("startedAt", "Invalid date")>>
    ELSE <<>>

\* Variant: the id schema without .uuid(...).
IdIssues_AnyString(v) ==
    IF ~IsString(v) THEN <<Issue("id", "Invalid input: expected string")>>
    ELSE <<>>

\* z.string().uuid('Invalid workout ID') on the key `id`
IdIssues(v) ==
    IF ~IsString(v) THEN <<Issue("id", "Invalid input: expected string")>>
    ELSE IF ~IsUuid(v) THEN <<Issue("id", "Invalid workout ID")>>
    ELSE <<>>

\* .optional(): undefined passes, anything else goes to the inner schema
Optional(v, issues) == IF v = Undefined THEN <<>> ELSE issues

\* z.object({...}).parse: the issues in key order; the output keeps the
\* declared keys only (unknown keys such as userId are stripped).
createWorkoutSchema(payload) ==
    LET iss == IF ~payload.obj THEN <<Issue("", "Invalid input: expected object")>>
               ELSE NameIssues(payload.name) \o DateIssues(payload.startedAt)
    IN  [issues |-> iss,
         output |-> [id |-> Undefined, name |-> payload.name, startedAt |-> payload.startedAt]]

updateWorkoutSchema(payload) ==
    LET iss == IF ~payload.obj THEN <<Issue("", "Invalid input: expected object")>>
               ELSE IdIssues(payload.id)
                    \o Optional(payload.name, NameIssues(payload.name))
                    \o Optional(payload.startedAt, DateIssues(payload.startedAt))
    IN  [issues |-> iss,
         output |-> [id |-> payload.id, name |-> payload.name, startedAt |-> payload.startedAt]]

NoInput == [id |-> Undefined, name |-> Undefined, startedAt |-> Undefined]

\* ------------------------------------------------------------------- storage
\* workoutsTable: position k of `workouts` holds the row whose uuid was the
\* k-th one issued by defaultRandom(), or NoRow.
Null == -1
NoRow == [id |-> 0, userId |-> NoUser, name |-> Undefined, startedAt |-> 0,
          completedAt |-> Null, createdAt |-> 0, updatedAt |-> 0]
Positions == 1..MaxWorkouts
Rows == {workouts[k] : k \in {j \in Positions : workouts[j] # NoRow}}

\* eq(workouts.id, v): a uuid column against a string parameter
IdEq(row, v) == IsUuid(v) /\ row.id = v.num

\* getCurrentUser(): { id: userId } for the userId that auth() reports, or null
getCurrentUser(session) == IF session = NoUser THEN NoUser ELSE session

\* Variant: the guard left out.
RequireUser_Skipped(user) == NoThrow

\* if (!user) throw new Error('Unauthorized'): what the guard throws, if anything
RequireUser(user) == IF user = NoUser THEN ErrorOf(MsgUnauthorized) ELSE NoThrow

\* Variant: the listing query without its userId filter.
SelectByUser_AllRows(uid) == Rows

\* .where(eq(workouts.userId, user.id))
SelectByUser(uid) == {r \in Rows : r.userId = uid}

\* Variant: the lookup by id alone, without the userId condition.
SelectOwned_AnyOwner(id, uid) == {r \in Rows : IdEq(r, id)}

\* .where(and(eq(workouts.id, id), eq(workouts.userId, user.id))).limit(1)
SelectOwned(id, uid) == {r \in Rows : IdEq(r, id) /\ r.userId = uid}

\* Variant: startedAt is left to the column default, defaultNow().
InsertedRow_StartsNow(input, uid, k, clock) ==
    [id |-> k, userId |-> uid, name |-> input.name, startedAt |-> clock,
     completedAt |-> Null, createdAt |-> clock, updatedAt |-> clock]

\* Variant: the id column without its unique default, every row gets the id 1.
InsertedRow_SameId(input, uid, k, clock) ==
    [id |-> 1, userId |-> uid, name |-> input.name, startedAt |-> input.startedAt.num,
     completedAt |-> Null, createdAt |-> clock, updatedAt |-> clock]

\* .insert(workouts).values({name, startedAt, userId: user.id}).returning()
InsertedRow(input, uid, k, clock) ==
    [id |-> k, userId |-> uid, name |-> input.name, startedAt |-> input.startedAt.num,
     completedAt |-> Null, createdAt |-> clock, updatedAt |-> clock]

\* Variant: a row already written at this clock reading keeps its values.
UpdatedRow_FirstWins(row, input, clock) ==
    IF row.updatedAt >= clock THEN row
    ELSE [row EXCEPT !.name = IF input.name # Undefined THEN input.name ELSE @,
                     !.startedAt = IF input.startedAt # Undefined THEN input.startedAt.num ELSE @,
                     !.updatedAt = clock]

\* Variant: the write also stamps completedAt.
UpdatedRow_Completes(row, input, clock) ==
    [row EXCEPT !.name = IF input.name # Undefined THEN input.name ELSE @,
                !.startedAt = IF input.startedAt # Undefined THEN input.startedAt.num ELSE @,
                !.completedAt = clock,
                !.updatedAt = clock]

\* Variant: a write of both fields, an omitted startedAt falls back to the
\* column default, defaultNow().
UpdatedRow_WritesBoth(row, input, clock) ==
    [row EXCEPT !.name = IF input.name # Undefined THEN input.name ELSE @,
                !.startedAt = IF input.startedAt # Undefined THEN input.startedAt.num ELSE clock,
                !.updatedAt = clock]

\* updateData: only the fields the input defines
\* .update(workouts).set(updateData): $onUpdate refreshes updatedAt
UpdatedRow(row, input, clock) ==
    [row EXCEPT !.name = IF input.name # Undefined THEN input.name ELSE @,
                !.startedAt = IF input.startedAt # Undefined THEN input.startedAt.num ELSE @,
                !.updatedAt = clock]

\* Variant: the write without its where clause.
WritePositions_AllRows(id) == {k \in Positions : workouts[k] # NoRow}

\* .where(eq(workouts.id, input.id)): the positions the write touches
WritePositions(id) == {k \in Positions : workouts[k] # NoRow /\ IdEq(workouts[k], id)}

\* ------------------------------------------------------------ request slots
NoRet == [kind |-> "none", rows |-> <<>>]
NoResult == [kind |-> "none", success |-> FALSE, data |-> <<>>, error |-> NoMessage,
             issues |-> <<>>, keys |-> {}]
Idle == [op |-> "idle", pc |-> "idle", session |-> Unresolved, user |-> Unresolved, payload |-> NotAnObject,
         input |-> NoInput, check |-> "none", ret |-> NoRet, thrown |-> NoThrow,
         origin |-> "none", result |-> NoResult]

Free(p) == req[p].pc = "idle"

\* The state of a mounted form component: its kind and props, its useState
\* cells, the server action calls it is awaiting (the slots they run in),
\* and whether it has called onSuccess and router.push('/dashboard').
NoForm == [kind |-> "none", workoutId |-> Undefined, onSuccess |-> FALSE,
           name |-> Undefined, startedAtValue |-> Undefined, isDirty |-> FALSE,
           loading |-> FALSE, error |-> NoMessage, validationIssues |-> <<>>,
           awaiting |-> {}, notified |-> FALSE, pushed |-> FALSE]

\* The failures the storage engine and the cache layer can raise.
StorageFailures == {ErrorOf(MsgConnection), ErrorOf(MsgFailedQuery)}
RefreshFailures == {ErrorOf(MsgStaticStore), NonError}

\* ---------------------------------------------------------------- dispatcher
\* The catch block of createWorkoutAction / updateWorkoutAction.
\* Variant: only the capitalised word is looked for.
isSecurityError_CaseSensitive(message) == Includes(message, "Unauthorized")

isSecurityError(message) == Includes(message, "Unauthorized") \/ Includes(message, "unauthorized")

\* Variant: a thrown value that is no Error is thrown on.
Catch_Rethrows(error) ==
    IF error.cls = "ZodError"
    THEN [kind |-> "return", success |-> FALSE, data |-> <<>>, error |-> ValidationFailed,
          issues |-> error.issues, keys |-> {"success", "error", "issues"}]
    ELSE IF error.cls = "Error"
    THEN [kind |-> "return", success |-> FALSE, data |-> <<>>,
          error |-> IF isSecurityError(error.message) THEN PermissionDenied ELSE error.message,
          issues |-> <<>>, keys |-> {"success", "error"}]
    ELSE [NoResult EXCEPT !.kind = "throw"]

Catch(error) ==
    IF error.cls = "ZodError"
    THEN [kind |-> "return", success |-> FALSE, data |-> <<>>, error |-> ValidationFailed,
          issues |-> error.issues, keys |-> {"success", "error", "issues"}]
    ELSE IF error.cls = "Error"
    THEN [kind |-> "return", success |-> FALSE, data |-> <<>>,
          error |-> IF isSecurityError(error.message) THEN PermissionDenied ELSE error.message,
          issues |-> <<>>, keys |-> {"success", "error"}]
    ELSE [kind |-> "return", success |-> FALSE, data |-> <<>>, error |-> UnexpectedError,
          issues |-> <<>>, keys |-> {"success", "error"}]

Success(ret) ==
    [kind |-> "return", success |-> TRUE, data |-> ret.rows, error |-> NoMessage,
     issues |-> <<>>, keys |-> {"success", "data"}]

\* ------------------------------------------------------------- input domains
BadNames == {Str("", 0), Str("long", 256), Num(7), Undefined}
Times == {1, 2}
Dates == {DateAt(t) : t \in Times}
BadDates == {InvalidDate, Str("2025-11-14", 10), Undefined}
Ids == {Uuid(k) : k \in 1..(MaxWorkouts + 1)}
BadIds == {Str("abc", 3), Undefined}
UserIdFields == {Str(u, 6) : u \in Users}

CreatePayloads ==
    {Payload(TRUE, Undefined, Str("Cardio", 6), d, Undefined) : d \in Dates}
    \cup {Payload(TRUE, Undefined, n, DateAt(1), Undefined) : n \in BadNames}
    \cup {Payload(TRUE, Undefined, Str("Cardio", 6), d, Undefined) : d \in BadDates}
    \cup {Payload(TRUE, Undefined, Str("", 0), InvalidDate, Undefined), NotAnObject}
    \cup {Payload(TRUE, Undefined, Str("Cardio", 6), DateAt(1), u) : u \in UserIdFields}

UpdatePayloads ==
    {Payload(TRUE, i, n, d, Undefined) : i \in Ids, n \in {Str("Leg Day", 7), Undefined},
                                         d \in {DateAt(2), Undefined}}
    \cup {Payload(TRUE, i, Undefined, DateAt(1), Undefined) : i \in BadIds}
    \cup {Payload(TRUE, Uuid(1), Str("", 0), Undefined, Undefined),
          Payload(TRUE, Uuid(1), Str("long", 256), Undefined, Undefined),
          Payload(TRUE, Uuid(1), Undefined, InvalidDate, Undefined), NotAnObject}
    \cup {Payload(TRUE, Uuid(1), Str("Leg Day", 7), Undefined, u) : u \in UserIdFields}

\* ------------------------------------------------------------------- initial
Init ==
    /\ workouts = [k \in Positions |-> NoRow]
    /\ issued = 0
    /\ creator = [k \in Positions |-> NoUser]
    /\ now = 0
    /\ stale = FALSE
    /\ req = [p \in Procs |-> Idle]
    /\ form = NoForm

Started(p, operation, payload) ==
    [Idle EXCEPT !.op = operation, !.payload = payload]

\* Inserts that are validated and not yet executed: each will take a fresh id.
PendingInserts == Cardinality({p \in Procs : req[p].op = "create" /\ req[p].pc = "repo"})

\* ------------------------------------------------------ createWorkoutAction
\* try { createWorkoutSchema.parse(payload); ... : parse runs first and a
\* ZodError goes straight to the catch block.
createWorkoutAction(p, payload) ==
    LET parsed == createWorkoutSchema(payload)
        call == Started(p, "create", payload)
    IN  IF parsed.issues # <<>>
        THEN req' = [req EXCEPT ![p] =
                       [call EXCEPT !.pc = "done", !.origin = "validator",
                                    !.thrown = ZodErrorOf(parsed.issues),
                                    !.result = Catch(ZodErrorOf(parsed.issues))]]
        ELSE /\ issued + PendingInserts < MaxWorkouts
             /\ req' = [req EXCEPT ![p] = [call EXCEPT !.pc = "repo", !.input = parsed.output]]

\* A call of the action with any payload a client can send.
CallCreateAction(p) ==
    /\ Free(p)
    /\ \E payload \in CreatePayloads : createWorkoutAction(p, payload)
    /\ UNCHANGED <<workouts, issued, creator, now, stale, form>>

\* Variant: a userId carried by the payload is taken as the owner.
createWorkout_TrustsPayload(p) ==
    /\ req[p].op = "create" /\ req[p].pc = "repo"
    /\ \E session \in Sessions :
       LET user == getCurrentUser(session)
           k == issued + 1
           owner == IF req[p].payload.userId # Undefined THEN req[p].payload.userId.s ELSE user
           row == InsertedRow(req[p].input, owner, k, now)
           me == [req[p] EXCEPT !.pc = "cont", !.session = session, !.user = user]
       IN  IF RequireUser(user) # NoThrow
           THEN /\ req' = [req EXCEPT ![p] = [me EXCEPT !.origin = "auth",
                                                        !.thrown = RequireUser(user)]]
                /\ UNCHANGED <<workouts, issued, creator>>
           ELSE \/ /\ workouts' = [workouts EXCEPT ![k] = row]
                   /\ issued' = k
                   /\ creator' = [creator EXCEPT ![k] = user]
                   /\ req' = [req EXCEPT ![p] = [me EXCEPT !.ret = [kind |-> "row",
                                                                   rows |-> <<row>>]]]
                \/ /\ \E e \in StorageFailures :
                        req' = [req EXCEPT ![p] = [me EXCEPT !.origin = "storage", !.thrown = e]]
                   /\ UNCHANGED <<workouts, issued, creator>>
    /\ UNCHANGED <<now, stale, form>>

\* createWorkout(input): resolve the user, insert, return the new row.
createWorkout(p) ==
    /\ req[p].op = "create" /\ req[p].pc = "repo"
    /\ \E session \in Sessions :
       LET user == getCurrentUser(session)
           k == issued + 1
           row == InsertedRow(req[p].input, user, k, now)
           me == [req[p] EXCEPT !.pc = "cont", !.session = session, !.user = user]
       IN  IF RequireUser(user) # NoThrow
           THEN /\ req' = [req EXCEPT ![p] = [me EXCEPT !.origin = "auth",
                                                        !.thrown = RequireUser(user)]]
                /\ UNCHANGED <<workouts, issued, creator>>
           ELSE \/ /\ workouts' = [workouts EXCEPT ![k] = row]
                   /\ issued' = k
                   /\ creator' = [creator EXCEPT ![k] = user]
                   /\ req' = [req EXCEPT ![p] = [me EXCEPT !.ret = [kind |-> "row",
                                                                   rows |-> <<row>>]]]
                \/ /\ \E e \in StorageFailures :
                        req' = [req EXCEPT ![p] = [me EXCEPT !.origin = "storage", !.thrown = e]]
                   /\ UNCHANGED <<workouts, issued, creator>>
    /\ UNCHANGED <<now, stale, form>>

\* ------------------------------------------------------ updateWorkoutAction
\* try { updateWorkoutSchema.parse(payload); ... as in createWorkoutAction.
updateWorkoutAction(p, payload) ==
    LET parsed == updateWorkoutSchema(payload)
        call == Started(p, "update", payload)
    IN  IF parsed.issues # <<>>
        THEN req' = [req EXCEPT ![p] =
                       [call EXCEPT !.pc = "done", !.origin = "validator",
                                    !.thrown = ZodErrorOf(parsed.issues),
                                    !.result = Catch(ZodErrorOf(parsed.issues))]]
        ELSE req' = [req EXCEPT ![p] = [call EXCEPT !.pc = "check", !.input = parsed.output]]

CallUpdateAction(p) ==
    /\ Free(p)
    /\ \E payload \in UpdatePayloads : updateWorkoutAction(p, payload)
    /\ UNCHANGED <<workouts, issued, creator, now, stale, form>>

\* deleteWorkout(workoutId) has no action in front of it.
CallDelete(p) ==
    /\ Free(p)
    /\ \E id \in Ids :
         req' = [req EXCEPT ![p] =
                   [Started(p, "delete", NotAnObject)
                      EXCEPT !.pc = "check", !.input = [NoInput EXCEPT !.id = id]]]
    /\ UNCHANGED <<workouts, issued, creator, now, stale, form>>

\* Where a rejected repository call goes: back into the action's catch block,
\* or, for deleteWorkout, out to the caller.
AfterThrow(p) == IF req[p].op = "delete" THEN "done" ELSE "cont"

\* What the id means to the caller when the ownership query runs.
Ownership(id, user) ==
    IF \E r \in Rows : IdEq(r, id) /\ r.userId = user THEN "owned"
    ELSE IF \E r \in Rows : IdEq(r, id) THEN "foreign"
    ELSE "absent"

\* updateWorkout / deleteWorkout up to the ownership check:
\* getCurrentUser, then select ... where id = input.id and userId = user.id.
checkOwnership(p) ==
    /\ req[p].op \in {"update", "delete"} /\ req[p].pc = "check"
    /\ \E session \in Sessions :
       LET user == getCurrentUser(session)
           existingWorkout == SelectOwned(req[p].input.id, user)
           me == [req[p] EXCEPT !.pc = AfterThrow(p), !.session = session, !.user = user]
       IN  IF RequireUser(user) # NoThrow
           THEN req' = [req EXCEPT ![p] = [me EXCEPT !.origin = "auth", !.check = "noUser",
                                                   !.thrown = RequireUser(user)]]
           ELSE \/ /\ existingWorkout = {}
                   /\ req' = [req EXCEPT ![p] =
                                [me EXCEPT !.origin = "ownership",
                                           !.check = Ownership(req[p].input.id, user),
                                           !.thrown = ErrorOf(MsgNotFound)]]
                \/ /\ existingWorkout # {}
                   /\ req' = [req EXCEPT ![p] = [me EXCEPT !.pc = "write", !.check = "owned"]]
                \/ \E e \in StorageFailures :
                     req' = [req EXCEPT ![p] = [me EXCEPT !.origin = "storage",
                                                         !.check = "failed", !.thrown = e]]
    /\ UNCHANGED <<workouts, issued, creator, now, stale, form>>

\* db.update(workouts).set(updateData).where(eq(workouts.id, input.id)).returning()
\* and `return result[0]`.
updateWorkout(p) ==
    /\ req[p].op = "update" /\ req[p].pc = "write"
    /\ \/ LET hit == WritePositions(req[p].input.id)
              written == [k \in Positions |->
                            IF k \in hit THEN UpdatedRow(workouts[k], req[p].input, now)
                            ELSE workouts[k]]
          IN  /\ workouts' = written
              /\ req' = [req EXCEPT ![p].pc = "cont",
                                    ![p].ret = IF hit = {}
                                               THEN [kind |-> "undefined", rows |-> <<>>]
                                               ELSE [kind |-> "row",
                                                     rows |-> <<written[CHOOSE k \in hit : TRUE]>>]]
       \/ /\ \E e \in StorageFailures :
               req' = [req EXCEPT ![p].pc = "cont", ![p].origin = "storage", ![p].thrown = e]
          /\ UNCHANGED workouts
    /\ UNCHANGED <<issued, creator, now, stale, form>>

\* db.delete(workouts).where(eq(workouts.id, workoutId))
deleteWorkout(p) ==
    /\ req[p].op = "delete" /\ req[p].pc = "write"
    /\ \/ /\ workouts' = [k \in Positions |->
                            IF k \in WritePositions(req[p].input.id) THEN NoRow ELSE workouts[k]]
          /\ req' = [req EXCEPT ![p].pc = "done", ![p].ret = [kind |-> "void", rows |-> <<>>]]
       \/ /\ \E e \in StorageFailures :
               req' = [req EXCEPT ![p].pc = "done", ![p].origin = "storage", ![p].thrown = e]
          /\ UNCHANGED workouts
    /\ UNCHANGED <<issued, creator, now, stale, form>>

\* The rest of the try block after `await`: revalidatePath('/dashboard') and
\* the success result; anything thrown so far or here lands in the catch block.
settleAction(p) ==
    /\ req[p].op \in {"create", "update"} /\ req[p].pc = "cont"
    /\ IF req[p].thrown # NoThrow
       THEN /\ req' = [req EXCEPT ![p].pc = "done", ![p].result = Catch(req[p].thrown)]
            /\ UNCHANGED stale
       ELSE \/ /\ stale' = TRUE
               /\ req' = [req EXCEPT ![p].pc = "done", ![p].result = Success(req[p].ret)]
            \/ /\ \E e \in RefreshFailures :
                    req' = [req EXCEPT ![p].pc = "done", ![p].origin = "refresh",
                                       ![p].thrown = e, ![p].result = Catch(e)]
               /\ UNCHANGED stale
    /\ UNCHANGED <<workouts, issued, creator, now, form>>

\* The caller has taken the outcome of its call; the slot can serve the next.
Release(p) ==
    /\ req[p].pc = "done"
    /\ req' = [req EXCEPT ![p] = Idle]
    /\ UNCHANGED <<workouts, issued, creator, now, stale, form>>

\* --------------------------------------------------------------------- reads
\* The orders in which the engine may return a set of rows.
Orderings(S) ==
    {f \in [1..Cardinality(S) -> S] : \A i, j \in 1..Cardinality(S) : i # j => f[i] # f[j]}
Ascending(f) == \A i, j \in 1..Len(f) : i < j => f[i].startedAt <= f[j].startedAt

\* Variant: the row is looked up by id and a foreign owner is reported.
getWorkoutById_Forbidden(workoutId, user) ==
    LET workout == {r \in Rows : IdEq(r, workoutId)}
    IN  IF workout = {} THEN [kind |-> "null", rows |-> <<>>]
        ELSE IF \A r \in workout : r.userId # user THEN [kind |-> "forbidden", rows |-> <<>>]
        ELSE [kind |-> "row", rows |-> <<CHOOSE r \in workout : TRUE>>]

\* getWorkoutById(workoutId) below its guard: workout[0] || null
getWorkoutById(workoutId, user) ==
    LET workout == SelectOwned(workoutId, user)
    IN  IF workout = {} THEN [kind |-> "null", rows |-> <<>>]
        ELSE [kind |-> "row", rows |-> <<CHOOSE r \in workout : TRUE>>]

\* WorkoutEditPage: await getWorkoutById(workoutId); redirect('/dashboard')
\* when it is null, the edit form otherwise.  The page has no try/catch.
WorkoutEditPage(p) ==
    /\ Free(p)
    /\ \E session \in Sessions, workoutId \in Ids :
         LET user == getCurrentUser(session)
             call == [Started(p, "getById", NotAnObject)
                        EXCEPT !.pc = "done", !.session = session, !.user = user,
                               !.input = [NoInput EXCEPT !.id = workoutId]]
             workout == getWorkoutById(workoutId, user)
             threw(e, why) == [call EXCEPT !.thrown = e, !.origin = why,
                                           !.result = [NoResult EXCEPT !.kind = "throw"]]
         IN  IF RequireUser(user) # NoThrow
             THEN req' = [req EXCEPT ![p] = threw(RequireUser(user), "auth")]
             ELSE \/ req' = [req EXCEPT ![p] =
                               [call EXCEPT !.check = Ownership(workoutId, user),
                                            !.ret = workout,
                                            !.result = [NoResult EXCEPT !.kind =
                                                          IF workout.kind = "null"
                                                          THEN "redirect" ELSE "render"]]]
                  \/ \E e \in StorageFailures :
                       req' = [req EXCEPT ![p] = threw(e, "storage")]
    /\ UNCHANGED <<workouts, issued, creator, now, stale, form>>

\* getUserWorkouts(): select ... where userId = user.id (no order by).
getUserWorkouts(p) ==
    /\ Free(p)
    /\ \E session \in Sessions :
         LET user == getCurrentUser(session)
             call == [Started(p, "listAll", NotAnObject)
                        EXCEPT !.pc = "done", !.session = session, !.user = user]
         IN  IF RequireUser(user) # NoThrow
             THEN req' = [req EXCEPT ![p] =
                            [call EXCEPT !.thrown = RequireUser(user), !.origin = "auth"]]
             ELSE \/ \E rows \in Orderings(SelectByUser(user)) :
                       req' = [req EXCEPT ![p] =
                                 [call EXCEPT !.ret = [kind |-> "rows", rows |-> rows]]]
                  \/ \E e \in StorageFailures :
                       req' = [req EXCEPT ![p] = [call EXCEPT !.thrown = e, !.origin = "storage"]]
    /\ UNCHANGED <<workouts, issued, creator, now, stale, form>>

\* listByDate(date): the caller's rows with startedAt in [start, end] of the
\* day, ascending by startedAt.  The dashboard re-fetches through it, which
\* uses up the stale mark.
MsPerDay == 3
Days == {0, 1}
DayStart(d) == d * MsPerDay
DayEnd(d) == DayStart(d) + MsPerDay - 1

\* Variant: the last millisecond of the day falls outside the window.
InDay_EndExcluded(t, d) == t >= DayStart(d) /\ t < DayEnd(d)

\* startedAt >= start AND startedAt < end + 1 ms
InDay(t, d) == t >= DayStart(d) /\ t < DayEnd(d) + 1

listByDate(p) ==
    /\ Free(p)
    /\ \E session \in Sessions, date \in Days :
         LET user == getCurrentUser(session)
             call == [Started(p, "listByDate", NotAnObject)
                        EXCEPT !.pc = "done", !.session = session, !.user = user,
                               !.input = [NoInput EXCEPT !.startedAt = DateAt(DayStart(date))]]
             hits == {r \in SelectByUser(user) : InDay(r.startedAt, date)}
         IN  IF RequireUser(user) # NoThrow
             THEN /\ req' = [req EXCEPT ![p] =
                               [call EXCEPT !.thrown = RequireUser(user), !.origin = "auth"]]
                  /\ UNCHANGED stale
             ELSE \/ /\ \E rows \in {f \in Orderings(hits) : Ascending(f)} :
                          req' = [req EXCEPT ![p] =
                                    [call EXCEPT !.ret = [kind |-> "rows", rows |-> rows]]]
                     /\ stale' = FALSE
                  \/ /\ \E e \in StorageFailures :
                          req' = [req EXCEPT ![p] = [call EXCEPT !.thrown = e, !.origin = "storage"]]
                     /\ UNCHANGED stale
    /\ UNCHANGED <<workouts, issued, creator, now, form>>

\* The wall clock that defaultNow() and $onUpdate(() => new Date()) read.
Tick ==
    /\ now < MaxClock
    /\ now' = now + 1
    /\ UNCHANGED <<workouts, issued, creator, stale, req, form>>

Next ==
    \E p \in Serial :
         \/ CallCreateAction(p)
         \/ createWorkout(p)
         \/ CallUpdateAction(p)
         \/ CallDelete(p)
         \/ checkOwnership(p)
         \/ updateWorkout(p)
         \/ deleteWorkout(p)
         \/ settleAction(p)
         \/ WorkoutEditPage(p)
         \/ getUserWorkouts(p)
         \/ listByDate(p)
         \/ Release(p)

Spec == Init /\ [][Next]_vars

TypeOK ==
    /\ issued \in 0..MaxWorkouts
    /\ now \in 0..MaxClock
    /\ stale \in BOOLEAN
    /\ \A p \in Procs : req[p].pc \in {"idle", "repo", "check", "write", "cont", "done"}

\* ------------------------------------------------------- reads on any table
\* The reads applied to every table of stored rows: each position holds no
\* row or a row of either user that starts at any instant of the two days
\* (and the first instant after them).
Instants == 0..(DayEnd(1) + 1)
StoredRow(k, uid, t) ==
    [id |-> k, userId |-> uid, name |-> Str("Cardio", 6), startedAt |-> t,
     completedAt |-> Null, createdAt |-> 0, updatedAt |-> 0]
Tables ==
    {f \in [Positions -> {NoRow} \cup {StoredRow(k, u, t) : k \in Positions, u \in Users,
                                                           t \in Instants}] :
        \A k \in Positions : f[k] # NoRow => f[k].id = k}

InitStored ==
    /\ workouts \in Tables
    /\ issued = MaxWorkouts
    /\ creator = [k \in Positions |-> workouts[k].userId]
    /\ now = 0
    /\ stale = FALSE
    /\ req = [p \in Procs |-> Idle]
    /\ form = NoForm

NextStored ==
    \E p \in Serial :
         \/ listByDate(p)
         \/ getUserWorkouts(p)
         \/ Release(p)

SpecStored == InitStored /\ [][NextStored]_vars

\* ------------------------------------------------------ writes under a clock
\* The two actions with the wall clock running between their steps.
NextClock ==
    \/ Tick
    \/ \E p \in Serial :
         \/ CallCreateAction(p)
         \/ createWorkout(p)
         \/ CallUpdateAction(p)
         \/ checkOwnership(p)
         \/ updateWorkout(p)
         \/ settleAction(p)
         \/ Release(p)

SpecClock == Init /\ [][NextClock]_vars

\* ----------------------------------------------------- create, then getById
\* A create call in one slot and the edit page's lookup in the other.
NextCreateGet ==
    \E p \in Procs :
         \/ CallCreateAction(p)
         \/ createWorkout(p)
         \/ settleAction(p)
         \/ WorkoutEditPage(p)
         \/ Release(p)

SpecCreateGet == Init /\ [][NextCreateGet]_vars

\* --------------------------------------------------- the schemas on any value
\* The two schemas applied to every payload built from these field values.
AnyIds == {Undefined, JsNull, Num(7), Str("", 0), Str("abc", 3), Uuid(1)}
AnyNames == {Undefined, JsNull, Num(7), Str("", 0), Str("a", 1), Str("Cardio", 6),
             Str("max", 255), Str("long", 256)}
AnyDates == {Undefined, JsNull, Num(7), Str("2025-11-14", 10), InvalidDate, DateAt(1)}
AnyPayloads ==
    {Payload(TRUE, i, n, d, u) : i \in AnyIds, n \in AnyNames, d \in AnyDates,
                                 u \in {Undefined, Str("user_B", 6)}}
    \cup {NotAnObject}

InitParse ==
    /\ workouts = [k \in Positions |-> NoRow]
    /\ issued = 0
    /\ creator = [k \in Positions |-> NoUser]
    /\ now = 0
    /\ stale = FALSE
    /\ form = NoForm
    /\ \E payload \in AnyPayloads :
          req = [p \in Procs |-> IF p \in Serial THEN [Idle EXCEPT !.payload = payload]
                                 ELSE Idle]

\* What .parse leaves behind: the parsed input, or the ZodError it throws.
Parsed(slot, operation, parsed) ==
    IF parsed.issues = <<>>
    THEN [slot EXCEPT !.op = operation, !.pc = "done", !.input = parsed.output]
    ELSE [slot EXCEPT !.op = operation, !.pc = "done", !.origin = "validator",
                      !.thrown = ZodErrorOf(parsed.issues)]

\* createWorkoutSchema.parse(payload)
parseCreate(p) ==
    /\ Free(p)
    /\ req' = [req EXCEPT ![p] = Parsed(req[p], "create", createWorkoutSchema(req[p].payload))]
    /\ UNCHANGED <<workouts, issued, creator, now, stale, form>>

\* updateWorkoutSchema.parse(payload)
parseUpdate(p) ==
    /\ Free(p)
    /\ req' = [req EXCEPT ![p] = Parsed(req[p], "update", updateWorkoutSchema(req[p].payload))]
    /\ UNCHANGED <<workouts, issued, creator, now, stale, form>>

NextParse == \E p \in Serial : parseCreate(p) \/ parseUpdate(p)

SpecParse == InitParse /\ [][NextParse]_vars

\* -------------------------------------------------------- concurrent updates
\* Two update calls in flight at once, on every table of rows created with
\* startedAt 1; their steps interleave at each await.  The two users being
\* interchangeable, the first row, if stored, is taken to be user_A's.
InitUpdates ==
    /\ workouts \in {f \in Tables : /\ \A k \in Positions :
                                         f[k] # NoRow => f[k].startedAt = 1
                                    /\ f[1] # NoRow => f[1].userId = "user_A"}
    /\ issued = MaxWorkouts
    /\ creator = [k \in Positions |-> workouts[k].userId]
    /\ now = 0
    /\ stale = FALSE
    /\ req = [p \in Procs |-> Idle]
    /\ form = NoForm

\* The payloads that updateWorkoutSchema accepts: only their calls reach the
\* repository, and the steps of two such calls are what interleaves here.
AcceptedUpdates ==
    {payload \in UpdatePayloads :
        updateWorkoutSchema(payload).issues = <<>> /\ payload.userId = Undefined}

CallAcceptedUpdate(p) ==
    /\ Free(p)
    /\ \E payload \in AcceptedUpdates : updateWorkoutAction(p, payload)
    /\ UNCHANGED <<workouts, issued, creator, now, stale, form>>

NextUpdates ==
    \E p \in Procs :
         \/ CallAcceptedUpdate(p)
         \/ checkOwnership(p)
         \/ updateWorkout(p)
         \/ settleAction(p)

SpecUpdates == InitUpdates /\ [][NextUpdates]_vars

\* ------------------------------------------------------- concurrent writers
\* Two calls in flight at once, each a create, an update or a delete by any
\* user, their steps interleaving at each await.  The first uuid has been
\* issued: its row is stored for either user, or was deleted.
InitConcurrent ==
    /\ \E first \in {NoRow} \cup {StoredRow(1, u, 1) : u \in Users} :
          workouts = [k \in Positions |-> IF k = 1 THEN first ELSE NoRow]
    /\ issued = 1
    /\ creator = [k \in Positions |-> workouts[k].userId]
    /\ now = 0
    /\ stale = FALSE
    /\ req = [p \in Procs |-> Idle]
    /\ form = NoForm

NextConcurrent ==
    \E p \in Procs :
         \/ CallCreateAction(p)
         \/ createWorkout(p)
         \/ CallUpdateAction(p)
         \/ CallDelete(p)
         \/ checkOwnership(p)
         \/ updateWorkout(p)
         \/ deleteWorkout(p)
         \/ settleAction(p)

SpecConcurrent == InitConcurrent /\ [][NextConcurrent]_vars

\* ---------------------------------------------------------------- the forms
\* CreateWorkoutForm and EditWorkoutForm.  A datetime-local field holds a
\* local time to the minute; the edit form fills it from initialStartedAt,
\* which drops seconds and milliseconds.
MsPerMinute == 2
FormatLocal(ms) == [t |-> "string", s |-> "datetime-local", len |-> 16,
                    num |-> ms - (ms % MsPerMinute)]
\* new Date(text): an Invalid Date for anything but a formatted time
NewDate(text) ==
    IF text.t = "string" /\ text.s = "datetime-local" THEN DateAt(text.num) ELSE InvalidDate

\* v || undefined: the empty string, null, 0 and undefined are falsy; an
\* object, an Invalid Date included, is truthy.
Truthy(v) ==
    IF v.t = "string" THEN v.len > 0
    ELSE IF v.t = "number" THEN v.num # 0
    ELSE v.t = "date"
\* Variant: the field's value is sent as it is.
OrUndefined_Keeps(v) == v

\* v || undefined
OrUndefined(v) == IF Truthy(v) THEN v ELSE Undefined

CreateForm(callback) ==
    [NoForm EXCEPT !.kind = "create", !.onSuccess = callback]
\* <EditWorkoutForm workoutId initialName={workout.name}
\*                  initialStartedAt={workout.startedAt} />
EditForm(workout, callback) ==
    [NoForm EXCEPT !.kind = "edit", !.onSuccess = callback, !.workoutId = Uuid(workout.id),
                   !.name = workout.name, !.startedAtValue = FormatLocal(workout.startedAt)]

\* What a user can type: the name field (required in the create form), and
\* the time field, which the browser keeps well-formed or empty.
TypedNames == {Str("Leg Day", 7), Str("long", 256)}
TypedTimes == {FormatLocal(2)}

\* Variant: the submit button is never disabled.
SubmitDisabled_Never(f) == FALSE

\* <Button type="submit" disabled={loading}> in the create form,
\* disabled={loading || !isDirty} in the edit form
SubmitDisabled(f) == f.loading \/ (f.kind = "edit" /\ ~f.isDirty)

\* One stored row of user_A, and either form mounted for it.
InitForms ==
    /\ workouts = [k \in Positions |-> IF k = 1 THEN StoredRow(1, "user_A", 1) ELSE NoRow]
    /\ issued = 1
    /\ creator = [k \in Positions |-> IF k = 1 THEN "user_A" ELSE NoUser]
    /\ now = 0
    /\ stale = FALSE
    /\ req = [p \in Procs |-> Idle]
    /\ \E callback \in BOOLEAN :
          form \in {CreateForm(callback), EditForm(StoredRow(1, "user_A", 1), callback)}

\* handleSubmit up to its await: setError(null), setValidationIssues([]),
\* setLoading(true), the payload, and the call of the server action, which
\* reaches the server or is lost on the way.
Submitting(p) ==
    [form EXCEPT !.error = NoMessage, !.validationIssues = <<>>, !.loading = TRUE,
                 !.awaiting = @ \cup {p}, !.notified = FALSE, !.pushed = FALSE]

submitCreate(p) ==
    /\ form.kind = "create" /\ ~SubmitDisabled(form)
    /\ Free(p)
    /\ \/ \E workoutName \in TypedNames, startedAtStr \in TypedTimes :
            createWorkoutAction(p, Payload(TRUE, Undefined, workoutName,
                                           NewDate(startedAtStr), Undefined))
       \/ UNCHANGED req
    /\ form' = Submitting(p)
    /\ UNCHANGED <<workouts, issued, creator, now, stale>>

submitEdit(p) ==
    /\ form.kind = "edit" /\ ~SubmitDisabled(form)
    /\ Free(p)
    /\ \/ updateWorkoutAction(p, Payload(TRUE, form.workoutId, OrUndefined(form.name),
                                         OrUndefined(NewDate(form.startedAtValue)),
                                         Undefined))
       \/ UNCHANGED req
    /\ form' = Submitting(p)
    /\ UNCHANGED <<workouts, issued, creator, now, stale>>

\* The inputs are disabled={loading}.
handleNameChange ==
    /\ form.kind = "edit" /\ ~form.loading
    /\ \E value \in TypedNames \cup {Str("", 0)} :
         form' = [form EXCEPT !.name = value, !.isDirty = TRUE]
    /\ UNCHANGED <<workouts, issued, creator, now, stale, req>>

handleDateChange ==
    /\ form.kind = "edit" /\ ~form.loading
    /\ \E value \in TypedTimes \cup {Str("", 0)} :
         form' = [form EXCEPT !.startedAtValue = value, !.isDirty = TRUE]
    /\ UNCHANGED <<workouts, issued, creator, now, stale, req>>

\* Variant: the handler goes on to onSuccess and router.push whatever the
\* result says.
Resolved_AlwaysPushes(result) ==
    [form EXCEPT !.notified = form.onSuccess, !.pushed = TRUE]

\* handleSubmit after its await, the action's result in hand: the branches
\* on result.success, then finally { setLoading(false) }.
Resolved(result) ==
    IF ~result.success
    THEN IF "issues" \in result.keys
         THEN [form EXCEPT !.validationIssues = result.issues]
         ELSE IF "error" \in result.keys /\ result.error # NoMessage
         THEN [form EXCEPT !.error = result.error]
         ELSE [form EXCEPT !.error = UnexpectedError]
    ELSE [form EXCEPT !.notified = form.onSuccess, !.pushed = TRUE]

resolveSubmit(p) ==
    /\ p \in form.awaiting /\ req[p].pc = "done"
    /\ form' = [Resolved(req[p].result) EXCEPT !.loading = FALSE, !.awaiting = @ \ {p}]
    /\ req' = [req EXCEPT ![p] = Idle]
    /\ UNCHANGED <<workouts, issued, creator, now, stale>>

\* Variant: setLoading(false) at the end of the try block instead of in a
\* finally block, so that the catch block leaves loading as it is.
rejectSubmit_NoFinally(p) ==
    /\ p \in form.awaiting /\ req[p].pc \in {"idle", "done"}
    /\ form' = [form EXCEPT !.error = UnexpectedError, !.awaiting = @ \ {p}]
    /\ req' = [req EXCEPT ![p] = Idle]
    /\ UNCHANGED <<workouts, issued, creator, now, stale>>

\* The await rejects, the request or the response of the finished call
\* being lost: the catch block, then finally.
rejectSubmit(p) ==
    /\ p \in form.awaiting /\ req[p].pc \in {"idle", "done"}
    /\ form' = [form EXCEPT !.error = UnexpectedError, !.loading = FALSE,
                            !.awaiting = @ \ {p}]
    /\ req' = [req EXCEPT ![p] = Idle]
    /\ UNCHANGED <<workouts, issued, creator, now, stale>>

ServerStep(p) ==
    \/ createWorkout(p)
    \/ checkOwnership(p)
    \/ updateWorkout(p)
    \/ settleAction(p)

NextForms ==
    \/ handleNameChange
    \/ handleDateChange
    \/ \E p \in Procs :
         \/ submitCreate(p)
         \/ submitEdit(p)
         \/ createWorkout(p)
         \/ checkOwnership(p)
         \/ updateWorkout(p)
         \/ settleAction(p)
         \/ resolveSubmit(p)
         \/ rejectSubmit(p)

SpecForms == InitForms /\ [][NextForms]_vars

\* The server runs a call to its end, the await settles, and the event loop
\* resumes the handler.
FairForms ==
    /\ InitForms
    /\ [][NextForms]_vars
    /\ \A p \in Procs : WF_vars(ServerStep(p)) /\ WF_vars(resolveSubmit(p) \/ rejectSubmit(p))

\* ================================================================ properties
Done(p) == req[p].pc = "done"
Acted(p) == req'[p] # req[p]
ReadOps == {"getById", "listAll", "listByDate"}
ActionOps == {"create", "update"}
HasPath(issues, path) == \E i \in 1..Len(issues) : issues[i].path = path
\* A message m occurs inside the text e, word for word.
Contains(e, m) ==
    /\ Len(m) > 0
    /\ \E o \in 0..(Len(e) - Len(m)) : \A i \in 1..Len(m) : e[o + i] = m[i]

\* C1: whatever id or date user B supplies, no row in the result of getById,
\* listAll or listByDate run as B was created by a user other than B.
ReadIsolation ==
    \A p \in Procs :
        (req[p].op \in ReadOps /\ Done(p)) =>
            \A i \in 1..Len(req[p].ret.rows) :
                /\ req[p].user \in Users
                /\ creator[req[p].ret.rows[i].id] = req[p].user

ReadIsolationWitness ==
    \E p \in Procs, k \in Positions :
        /\ req[p].op \in ReadOps /\ Done(p)
        /\ req[p].user \in Users /\ req[p].thrown = NoThrow
        /\ workouts[k] # NoRow /\ creator[k] # req[p].user
        /\ req[p].op = "getById" => IdEq(workouts[k], req[p].input.id)

\* C2: a step of an update or delete call made as user B leaves every stored
\* row whose userId is not B exactly as it was.
WriteIsolation ==
    [][\A p \in Procs :
          (req[p].op \in {"update", "delete"} /\ Acted(p)) =>
              \A k \in Positions :
                  (workouts[k] # NoRow /\ workouts[k].userId # req'[p].user) =>
                      workouts'[k] = workouts[k]]_vars

WriteIsolationWitness ==
    \E p \in Procs, k \in Positions :
        /\ req[p].op \in {"update", "delete"} /\ Done(p)
        /\ req[p].user \in Users /\ req[p].check = "foreign"
        /\ workouts[k] # NoRow /\ workouts[k].userId # req[p].user
        /\ IdEq(workouts[k], req[p].input.id)

UpdateHidesExistence ==
    \A p \in Procs :
        (req[p].op = "update" /\ Done(p) /\ req[p].check \in {"foreign", "absent", "noUser"}) =>
            req[p].result = [kind |-> "return", success |-> FALSE, data |-> <<>>,
                             error |-> PermissionDenied, issues |-> <<>>,
                             keys |-> {"success", "error"}]

UpdateHidesExistenceWitness ==
    \E p \in Procs, k \in Positions :
        /\ req[p].op = "update" /\ Done(p) /\ req[p].check = "foreign"
        /\ workouts[k] # NoRow /\ IdEq(workouts[k], req[p].input.id)
        /\ req[p].result.error = PermissionDenied

\* C5: a step of any repository operation taken while the identity resolver
\* reports no user throws Error('Unauthorized'), returns nothing and leaves
\* the stored rows as they were.
UnauthenticatedRejected ==
    [][\A p \in Procs :
          (Acted(p) /\ req'[p].session = NoUser) =>
              /\ workouts' = workouts
              /\ req'[p].thrown = ErrorOf(MsgUnauthorized)
              /\ req'[p].ret = NoRet]_vars

UnauthenticatedRejectedWitness ==
    \E p \in Procs, k \in Positions :
        /\ req[p].session = NoUser /\ req[p].op = "delete" /\ Done(p)
        /\ workouts[k] # NoRow /\ IdEq(workouts[k], req[p].input.id)

\* C6: every stored row has the userId of the identity that was resolved when
\* it was created and the id it was given then, whatever the payloads carried.
OwnerAndIdImmutable ==
    \A k \in Positions :
        workouts[k] # NoRow =>
            /\ workouts[k].userId = creator[k]
            /\ workouts[k].id = k

OwnerAndIdImmutableWitness ==
    \E p \in Procs :
        /\ req[p].op \in ActionOps /\ Done(p) /\ req[p].result.success
        /\ req[p].payload.userId # Undefined
        /\ req[p].payload.userId.s # req[p].user
        /\ Len(req[p].result.data) = 1
        /\ workouts[req[p].result.data[1].id].userId = req[p].user

\* What the schemas are meant to accept, stated on the payload itself.
WellFormedName(v) == IsString(v) /\ v.len >= 1 /\ v.len <= 255
WellFormed(op, payload) ==
    /\ payload.obj
    /\ IF op = "create"
       THEN WellFormedName(payload.name) /\ IsValidDate(payload.startedAt)
       ELSE /\ IsUuid(payload.id)
            /\ payload.name = Undefined \/ WellFormedName(payload.name)
            /\ payload.startedAt = Undefined \/ IsValidDate(payload.startedAt)

\* C7: a step of createWorkoutAction or updateWorkoutAction on a payload the
\* schema rejects ends the call at once: no identity is resolved, nothing is
\* returned by the repository, the rows are unchanged and the result is
\* success false with issues; an empty name gives an issue at 'name' and an
\* invalid startedAt one at 'startedAt'.
ValidateBeforeRepository ==
    [][\A p \in Procs :
          (Acted(p) /\ req'[p].op \in ActionOps /\ ~WellFormed(req'[p].op, req'[p].payload)) =>
              /\ workouts' = workouts
              /\ req'[p].pc = "done"
              /\ req'[p].session = Unresolved /\ req'[p].user = Unresolved
              /\ req'[p].ret = NoRet
              /\ req'[p].result.kind = "return" /\ ~req'[p].result.success
              /\ "issues" \in req'[p].result.keys /\ Len(req'[p].result.issues) > 0
              /\ (req'[p].payload.obj /\ req'[p].payload.name = Str("", 0)) =>
                     HasPath(req'[p].result.issues, "name")
              /\ (req'[p].payload.obj /\ req'[p].payload.startedAt = InvalidDate) =>
                     HasPath(req'[p].result.issues, "startedAt")]_vars

ValidateBeforeRepositoryWitness ==
    \E p \in Procs, k \in Positions :
        /\ req[p].op = "create" /\ Done(p)
        /\ req[p].payload.name = Str("", 0) /\ req[p].payload.startedAt = InvalidDate
        /\ HasPath(req[p].result.issues, "name") /\ HasPath(req[p].result.issues, "startedAt")
        /\ workouts[k] # NoRow

\* C8: a finished createWorkoutAction or updateWorkoutAction call has returned
\* an object with a boolean success field; it has never thrown.
ActionNeverThrows ==
    \A p \in Procs :
        (req[p].op \in ActionOps /\ Done(p)) =>
            /\ req[p].result.kind = "return"
            /\ "success" \in req[p].result.keys
            /\ req[p].result.success \in BOOLEAN

ActionNeverThrowsWitness ==
    \E p \in Procs :
        /\ req[p].op \in ActionOps /\ Done(p)
        /\ req[p].origin = "refresh" /\ req[p].thrown = NonError
        /\ req[p].result.kind = "return" /\ ~req[p].result.success

\* C9: the result carries the generic permission-denied text exactly when the
\* repository failed for want of an identity or of an owned row, and that
\* text never contains the repository's own message.
ForbiddenMapping ==
    \A p \in Procs :
        (req[p].op \in ActionOps /\ Done(p) /\ ~req[p].result.success) =>
            /\ (req[p].result.error = PermissionDenied) <=> (req[p].origin \in {"auth", "ownership"})
            /\ (req[p].result.error = PermissionDenied) =>
                   ~Contains(req[p].result.error, req[p].thrown.message)

\* C10: when the repository fails for another reason than identity or
\* ownership, the error text of the result is not the raw message of the
\* failure.
StorageFailureIsGeneric ==
    \A p \in Procs :
        (req[p].op \in ActionOps /\ Done(p) /\ req[p].origin = "storage") =>
            req[p].result.error # req[p].thrown.message

\* The rows a finished read returned, as a set.
Returned(p) == {req[p].ret.rows[i] : i \in 1..Len(req[p].ret.rows)}

\* C11: on every table and for every day D, a listByDate(D) call by a
\* signed-in user that the storage engine served returns each of the caller's
\* rows with DayStart(D) <= startedAt <= DayEnd(D) exactly once and no other
\* row, in ascending order of startedAt; with no such row it returns the
\* empty sequence and throws nothing.
DateWindow ==
    \A p \in Procs :
        (req[p].op = "listByDate" /\ Done(p) /\ req[p].user \in Users
            /\ req[p].origin # "storage") =>
            \E d \in Days :
                LET expected == {r \in Rows : /\ r.userId = req[p].user
                                              /\ DayStart(d) <= r.startedAt
                                              /\ r.startedAt <= DayEnd(d)}
                    rows == req[p].ret.rows
                IN  /\ req[p].input.startedAt = DateAt(DayStart(d))
                    /\ req[p].thrown = NoThrow
                    /\ req[p].ret.kind = "rows"
                    /\ Returned(p) = expected
                    /\ Len(rows) = Cardinality(expected)
                    /\ \A i, j \in 1..Len(rows) :
                           i < j => rows[i].startedAt <= rows[j].startedAt

DateWindowWitness ==
    \E p \in Procs, k \in Positions :
        /\ req[p].op = "listByDate" /\ Done(p) /\ req[p].user \in Users
        /\ req[p].input.startedAt = DateAt(DayStart(0))
        /\ Len(req[p].ret.rows) = 1
        /\ req[p].ret.rows[1].startedAt = DayEnd(0)
        /\ workouts[k].userId = req[p].user
        /\ workouts[k].startedAt = DayStart(1)

\* The write step of an update call that the storage engine carried out.
Wrote(p) ==
    /\ req[p].op = "update" /\ req[p].pc = "write"
    /\ req'[p].pc = "cont" /\ req'[p].thrown = NoThrow

\* C12: the write of an update call on an owned row sets name and startedAt
\* to the values the input provides and keeps them where the input omits
\* them, keeps id, userId, completedAt and createdAt, leaves every other
\* row alone, and sets updatedAt to a later timestamp than the row had.
PartialUpdate ==
    [][\A p \in Procs :
          Wrote(p) =>
              \A k \in Positions :
                  IF k \in WritePositions(req[p].input.id)
                  THEN /\ workouts'[k].name = IF req[p].input.name # Undefined
                                              THEN req[p].input.name ELSE workouts[k].name
                       /\ workouts'[k].startedAt = IF req[p].input.startedAt # Undefined
                                                   THEN req[p].input.startedAt.num
                                                   ELSE workouts[k].startedAt
                       /\ workouts'[k].id = workouts[k].id
                       /\ workouts'[k].userId = workouts[k].userId
                       /\ workouts'[k].completedAt = workouts[k].completedAt
                       /\ workouts'[k].createdAt = workouts[k].createdAt
                       /\ workouts'[k].updatedAt > workouts[k].updatedAt
                  ELSE workouts'[k] = workouts[k]]_vars

\* C13: when createWorkout has returned a row for the input {name, startedAt}
\* and the same user then looks up the returned id, the lookup, unless the
\* storage engine fails, returns a row with that name and startedAt, with
\* the userId of the resolved identity and with completedAt null.
CreateGetRoundTrip ==
    [][\A p, q \in Procs :
          (/\ req[p].op = "create" /\ req[p].ret.kind = "row"
           /\ Acted(q) /\ req'[q].op = "getById"
           /\ req'[q].user = req[p].user
           /\ req'[q].input.id = Uuid(req[p].ret.rows[1].id)
           /\ req'[q].origin # "storage") =>
              /\ req'[q].ret.kind = "row"
              /\ req'[q].ret.rows[1].name = req[p].payload.name
              /\ req'[q].ret.rows[1].startedAt = req[p].payload.startedAt.num
              /\ req'[q].ret.rows[1].userId = req[p].user
              /\ req'[q].ret.rows[1].completedAt = Null]_vars

CreateGetRoundTripWitness ==
    \E p, q \in Procs :
        /\ req[p].op = "create" /\ req[p].ret.kind = "row"
        /\ req[p].payload.startedAt = DateAt(2)
        /\ req[q].op = "getById" /\ Done(q)
        /\ req[q].user = req[p].user
        /\ req[q].input.id = Uuid(req[p].ret.rows[1].id)
        /\ req[q].ret.kind = "row"
        /\ req[q].ret.rows[1].startedAt = 2

\* C14: in every state reached through createWorkoutAction and
\* updateWorkoutAction calls, whatever their payloads, the name of every
\* stored row is a string of 1 to 255 characters.
NameLength ==
    \A k \in Positions :
        workouts[k] # NoRow =>
            /\ IsString(workouts[k].name)
            /\ workouts[k].name.len >= 1
            /\ workouts[k].name.len <= 255

NameLengthWitness ==
    \E p \in Procs, k \in Positions :
        /\ req[p].op = "update" /\ Done(p)
        /\ req[p].payload.name = Str("long", 256)
        /\ workouts[k] # NoRow /\ IdEq(workouts[k], req[p].payload.id)
        /\ workouts[k].name.len = 6

\* C15: createWorkoutSchema accepts a payload exactly when its name is a
\* string of 1 to 255 characters and its startedAt a valid date;
\* updateWorkoutSchema accepts exactly when the id is a uuid string, the name
\* is absent or a string of 1 to 255 characters and startedAt is absent or a
\* valid date.  A name of 255 characters passes, one of 256 does not.
AcceptanceSet ==
    \A p \in Procs :
        (req[p].op \in ActionOps /\ Done(p)) =>
            /\ (req[p].thrown = NoThrow) <=> WellFormed(req[p].op, req[p].payload)
            /\ req[p].thrown # NoThrow => req[p].thrown.cls = "ZodError"
            /\ (req[p].payload.obj /\ req[p].payload.name = Str("long", 256)) =>
                   req[p].thrown # NoThrow
            /\ (/\ req[p].payload.obj /\ req[p].payload.name = Str("max", 255)
                /\ IsValidDate(req[p].payload.startedAt)
                /\ IsUuid(req[p].payload.id) \/ req[p].op = "create") =>
                   req[p].thrown = NoThrow

AcceptanceSetWitness ==
    \E p \in Procs :
        /\ req[p].op = "update" /\ Done(p)
        /\ req[p].payload.name = Str("max", 255)
        /\ req[p].payload.id = Uuid(1)
        /\ req[p].payload.startedAt = Undefined
        /\ req[p].thrown = NoThrow
        /\ req[p].input.name = Str("max", 255)

\* C16: in every state reached through create and update calls, completedAt
\* of every stored row is null.
NeverCompleted ==
    \A k \in Positions : workouts[k] # NoRow => workouts[k].completedAt = Null

NeverCompletedWitness ==
    \E p \in Procs, k \in Positions :
        /\ req[p].op = "update" /\ Done(p) /\ req[p].result.success
        /\ IdEq(workouts[k], req[p].input.id)
        /\ workouts[k].name = Str("Leg Day", 7) /\ workouts[k].startedAt = 2
        /\ workouts[k].completedAt = Null

\* The step that ends a create or update call whose repository call returned.
SettlesAfterWrite(p) ==
    /\ req[p].op \in ActionOps /\ req[p].pc = "cont" /\ req[p].thrown = NoThrow
    /\ req'[p].pc = "done"

\* C17: the step that ends a create or update call whose repository call
\* returned leaves "/dashboard" marked stale; and the mark is only ever set
\* by such a step, that is after the storage write of the same call and
\* never by a call that failed validation or whose repository call threw.
RefreshSignal ==
    [][\A p \in Procs :
          /\ SettlesAfterWrite(p) => stale'
          /\ (Acted(p) /\ ~stale /\ stale') =>
                 /\ SettlesAfterWrite(p)
                 /\ req[p].ret.kind \in {"row", "undefined"}]_vars

\* Two update calls of the same row by its owner, both past validation.
SameRowUpdates(p, q) ==
    /\ p # q
    /\ req[p].op = "update" /\ req[q].op = "update"
    /\ req[p].pc # "idle" /\ req[q].pc # "idle"
    /\ req[p].origin # "validator" /\ req[q].origin # "validator"
    /\ req[p].input.id = req[q].input.id

\* C18: while two update calls of the same row are in flight, (a) a call
\* that is waiting always has its next step enabled, whatever the other
\* has done, and two calls by the owner that met no storage or refresh
\* failure both end with success and the row they wrote; (b) each write
\* leaves the row with the fields its own input provides, also over the
\* other call's write, and returns that row; (c) no other step changes the
\* table, so the stored row is as the last write left it.
LastWriteWins ==
    /\ [](\A p, q \in Procs :
            SameRowUpdates(p, q) =>
                /\ req[p].pc \in {"check", "write", "cont"} =>
                       ENABLED (checkOwnership(p) \/ updateWorkout(p) \/ settleAction(p))
                /\ (/\ Done(p) /\ Done(q)
                    /\ req[p].check = "owned" /\ req[q].check = "owned"
                    /\ req[p].origin = "none" /\ req[q].origin = "none") =>
                       /\ req[p].result.success /\ req[q].result.success
                       /\ req[p].ret.kind = "row" /\ req[q].ret.kind = "row"
                       /\ \E k \in WritePositions(req[p].input.id) :
                              workouts[k] \in {req[p].ret.rows[1], req[q].ret.rows[1]})
    /\ [][\A p, q \in Procs :
            SameRowUpdates(p, q) =>
                /\ Wrote(p) =>
                       \A k \in WritePositions(req[p].input.id) :
                           /\ req[p].input.name # Undefined =>
                                  workouts'[k].name = req[p].input.name
                           /\ req[p].input.startedAt # Undefined =>
                                  workouts'[k].startedAt = req[p].input.startedAt.num
                           /\ req'[p].ret = [kind |-> "row", rows |-> <<workouts'[k]>>]
                /\ (~Wrote(p) /\ ~Wrote(q)) => workouts' = workouts]_vars

LastWriteWinsWitness ==
    \E p, q \in Procs, k \in Positions :
        /\ SameRowUpdates(p, q) /\ Done(p) /\ Done(q)
        /\ req[p].result.success /\ req[q].result.success
        /\ IdEq(workouts[k], req[p].input.id)
        /\ req[p].input.name = Undefined /\ req[p].input.startedAt = DateAt(2)
        /\ req[q].input.name = Str("Leg Day", 7) /\ req[q].input.startedAt = Undefined
        /\ req[p].ret.rows[1].name = Str("Cardio", 6)
        /\ workouts[k] = req[q].ret.rows[1]
        /\ workouts[k].startedAt = 2

\* C19: on every table, a getUserWorkouts call by a signed-in user that the
\* storage engine served returns each row of that user exactly once and no
\* other row, in ascending order of startedAt.
ListAllOrdered ==
    \A p \in Procs :
        (req[p].op = "listAll" /\ Done(p) /\ req[p].user \in Users
            /\ req[p].origin # "storage") =>
            LET mine == {r \in Rows : r.userId = req[p].user}
                rows == req[p].ret.rows
            IN  /\ req[p].thrown = NoThrow
                /\ req[p].ret.kind = "rows"
                /\ Returned(p) = mine
                /\ Len(rows) = Cardinality(mine)
                /\ \A i, j \in 1..Len(rows) :
                       i < j => rows[i].startedAt <= rows[j].startedAt

\* C20: for a deleteWorkout call by a signed-in caller that the storage
\* engine serves: when the id is of a row the caller owns, the ownership
\* query lets the call through and the delete removes that row and no
\* other; when the id matches no row or a row of another user, the call
\* ends at the ownership query with Error('Workout not found or
\* unauthorized') and the table is unchanged.
DeleteOwnedOnly ==
    [][\A p \in Procs :
          (/\ req[p].op = "delete" /\ req[p].pc \in {"check", "write"} /\ Acted(p)
           /\ req'[p].user \in Users /\ req'[p].origin # "storage") =>
              LET id == req[p].input.id
                  owned == Ownership(id, req'[p].user) = "owned"
              IN  /\ (req[p].pc = "check" /\ ~owned) =>
                         /\ req'[p].pc = "done"
                         /\ req'[p].thrown = ErrorOf(MsgNotFound)
                         /\ req'[p].ret = NoRet
                         /\ workouts' = workouts
                  /\ (req[p].pc = "check" /\ owned) =>
                         /\ req'[p].pc = "write"
                         /\ req'[p].thrown = NoThrow
                         /\ workouts' = workouts
                  /\ req[p].pc = "write" =>
                         /\ owned
                         /\ req'[p].pc = "done"
                         /\ req'[p].thrown = NoThrow
                         /\ req'[p].ret.kind = "void"
                         /\ \A k \in Positions :
                                workouts'[k] = IF IdEq(workouts[k], id) THEN NoRow
                                               ELSE workouts[k]]_vars

DeleteOwnedOnlyWitness ==
    \E p \in Procs, j \in Positions :
        /\ req[p].op = "delete" /\ Done(p) /\ req[p].ret.kind = "void"
        /\ req[p].input.id.num \in Positions
        /\ req[p].input.id.num <= issued
        /\ workouts[req[p].input.id.num] = NoRow
        /\ j # req[p].input.id.num
        /\ workouts[j] # NoRow

\* C21: the result of a finished createWorkoutAction or updateWorkoutAction
\* call is either success true with a workout as data and with neither
\* error nor issues, or success false without data; a success-false result
\* has an issues list, of {path, message} entries, exactly when the schema
\* rejected the payload.
ResultEnvelope ==
    \A p \in Procs :
        (req[p].op \in ActionOps /\ Done(p)) =>
            LET result == req[p].result
            IN  /\ result.kind = "return"
                /\ result.success =>
                       /\ result.keys = {"success", "data"}
                       /\ Len(result.data) = 1
                       /\ result.data[1] # NoRow
                       /\ result.error = NoMessage /\ result.issues = <<>>
                /\ ~result.success =>
                       /\ "data" \notin result.keys
                       /\ ("issues" \in result.keys) <=> (req[p].origin = "validator")
                       /\ req[p].origin = "validator" => Len(result.issues) > 0
                       /\ \A i \in 1..Len(result.issues) :
                              DOMAIN result.issues[i] = {"path", "message"}

\* C22: a page that has called getWorkoutById while no identity is resolved
\* has rendered a sign-in notice; the Error('Unauthorized') has not been
\* thrown on out of the page.
SignInNotice ==
    \A p \in Procs :
        (req[p].op = "getById" /\ Done(p) /\ req[p].session = NoUser) =>
            /\ req[p].result.kind # "throw"
            /\ req[p].result.kind = "notice"

\* The await of the call in slot p settles in this step.
Settles(p) == p \in form.awaiting /\ p \notin form'.awaiting
\* ... and what it can settle with is a success-true result.
Succeeded(p) == req[p].pc = "done" /\ req[p].result.success

\* C23: a form calls onSuccess and router.push('/dashboard') only in the
\* step in which the await of its server action settles and the result says
\* success true; a step that settles the await otherwise (success false, or
\* a rejection) does neither and leaves an error or validation issues in
\* the form's state.
RedirectAfterSuccess ==
    [][/\ ((form'.pushed /\ ~form.pushed) \/ (form'.notified /\ ~form.notified)) =>
              \E p \in Procs : Settles(p) /\ Succeeded(p)
       /\ \A p \in Procs :
              (Settles(p) /\ (~Succeeded(p) \/ ~form'.pushed)) =>
                  /\ ~form'.pushed /\ ~form'.notified
                  /\ form'.error # NoMessage \/ form'.validationIssues # <<>>]_vars

RedirectAfterSuccessWitness ==
    \E k \in Positions :
        /\ form.kind = "edit" /\ form.pushed /\ form.notified /\ ~form.loading
        /\ form.error = NoMessage /\ form.validationIssues = <<>>
        /\ IdEq(workouts[k], form.workoutId)
        /\ workouts[k].name = Str("Leg Day", 7)

\* C24: a createWorkoutAction or updateWorkoutAction call that has returned
\* success false has written nothing: its repository call did not return,
\* so no insert and no update of this call reached the table.
FailureWritesNothing ==
    \A p \in Procs :
        (req[p].op \in ActionOps /\ Done(p) /\ ~req[p].result.success) =>
            req[p].ret = NoRet

\* C25: in every interleaving of create, update and delete calls, the write
\* step of an update whose caller resolved to user B leaves every stored
\* workout whose userId is not B exactly as it was.
UpdateWritesOwnRows ==
    [][\A p \in Procs :
         (req[p].op = "update" /\ req[p].pc = "write" /\ req'[p].pc = "cont") =>
            \A k \in Positions :
                (workouts[k] # NoRow /\ workouts[k].userId # req[p].user) =>
                    workouts'[k] = workouts[k]]_vars

\* An update has written its row while another call is in flight and a
\* workout of another user is stored.
UpdateWritesOwnRowsWitness ==
    \E p \in Procs, q \in Procs :
        /\ p # q
        /\ req[p].op = "update" /\ req[p].pc = "cont" /\ req[p].ret.kind = "row"
        /\ req[q].op \in {"create", "update", "delete"} /\ req[q].pc # "idle"
        /\ \E k \in Positions : workouts[k] # NoRow /\ workouts[k].userId # req[p].user

\* C26: an updateWorkoutAction call that has returned success true returns
\* one workout as data, whose id is the id of the payload and whose userId
\* is the identity the call resolved.
UpdateReturnsRow ==
    \A p \in Procs :
        (req[p].op = "update" /\ Done(p) /\ req[p].result.success) =>
            /\ Len(req[p].result.data) = 1
            /\ req[p].result.data[1].id = req[p].input.id.num
            /\ req[p].result.data[1].userId = req[p].user

\* C27: when two update calls of the same workout by its owner, one with
\* only a name and the other with only a startedAt, have both written, in
\* whatever order their steps ran, the stored workout has the name of the
\* first and the startedAt of the second.
MergePerField ==
    \A p, q \in Procs :
        (/\ SameRowUpdates(p, q)
         /\ req[p].ret.kind = "row" /\ req[q].ret.kind = "row"
         /\ req[p].input.name # Undefined /\ req[p].input.startedAt = Undefined
         /\ req[q].input.name = Undefined /\ req[q].input.startedAt # Undefined) =>
            /\ WritePositions(req[p].input.id) # {}
            /\ \A k \in WritePositions(req[p].input.id) :
                   /\ workouts[k].name = req[p].input.name
                   /\ workouts[k].startedAt = req[q].input.startedAt.num
                   /\ workouts[k].userId = req[p].user /\ workouts[k].userId = req[q].user

\* Both calls are finished, the call with the name wrote first (the row it
\* returned still has the old startedAt), and the row has both new values.
MergePerFieldWitness ==
    \E p, q \in Procs, k \in Positions :
        /\ SameRowUpdates(p, q) /\ Done(p) /\ Done(q)
        /\ req[p].input.name = Str("Leg Day", 7) /\ req[p].input.startedAt = Undefined
        /\ req[q].input.name = Undefined /\ req[q].input.startedAt = DateAt(2)
        /\ req[p].ret.kind = "row" /\ req[q].ret.kind = "row"
        /\ req[p].ret.rows[1].startedAt = 1
        /\ IdEq(workouts[k], req[p].input.id)
        /\ workouts[k].name = Str("Leg Day", 7) /\ workouts[k].startedAt = 2

\* A submit starts in this step: the handler calls the server action.
Submits(p) == p \notin form.awaiting /\ p \in form'.awaiting

\* C28: the step in which a form is submitted sets loading to true; the
\* step in which the awaited action settles, with a result of either kind
\* or with a rejection, sets loading to false; loading is true exactly
\* while a call is awaited; and, the server and the event loop being
\* scheduled fairly, a form that is loading is eventually not loading.
LoadingEnds ==
    /\ [](form.loading <=> form.awaiting # {})
    /\ [][\A p \in Procs :
             /\ Submits(p) => form'.loading
             /\ Settles(p) => ~form'.loading]_vars
    /\ (form.loading ~> ~form.loading)

\* A submit whose request was lost has ended in the catch block: loading is
\* false again and the error is shown, the table as it was.
LoadingEndsWitness ==
    /\ form.kind # "none" /\ ~form.loading /\ form.awaiting = {}
    /\ form.error = UnexpectedError
    /\ \A p \in Procs : req[p] = Idle
    /\ workouts = [k \in Positions |-> IF k = 1 THEN StoredRow(1, "user_A", 1) ELSE NoRow]

\* The calls of the form's server action that are outstanding: awaited by
\* the handler, or still running on the server.
Outstanding == form.awaiting \cup {p \in Procs : req[p].pc # "idle"}

\* C29: a form never has two calls of its action outstanding; while it
\* waits for one, its submit control is disabled and its inputs keep their
\* values; a submit happens only while the form is not loading, and in the
\* edit form only after a field was edited.
OneInFlight ==
    /\ [](/\ Cardinality(Outstanding) <= 1
          /\ form.awaiting # {} => (form.loading /\ SubmitDisabled(form)))
    /\ [][/\ form.loading =>
                 /\ form'.name = form.name
                 /\ form'.startedAtValue = form.startedAtValue
          /\ \A p \in Procs :
                 Submits(p) =>
                     /\ ~form.loading /\ Outstanding = {}
                     /\ form.kind = "edit" => form.isDirty]_vars

\* The edit form, a field edited, waits for its one update call, which is
\* about to write; no other call is outstanding.
OneInFlightWitness ==
    \E p \in Procs :
        /\ form.kind = "edit" /\ form.isDirty /\ form.loading
        /\ form.awaiting = {p}
        /\ req[p].op = "update" /\ req[p].pc = "write"
        /\ \A q \in Procs \ {p} : req[q] = Idle

\* The update calls that the edit form is waiting for.
EditCalls == {p \in form.awaiting : form.kind = "edit" /\ req[p].op = "update"}
Unparsable(text) == NewDate(text) = InvalidDate

\* C30: a call by the edit form always carries a startedAt, and carries no
\* name when the name field is empty.  With the name field empty the result
\* has no issue for 'name' and no step changes a stored name.  With a start
\* time that does not parse the call ends as a validation failure with an
\* issue for 'startedAt', which the form shows unless the response is lost,
\* and no step changes the table.
EditPayload ==
    /\ [](\A p \in EditCalls :
            /\ req[p].payload.id = form.workoutId
            /\ req[p].payload.startedAt = NewDate(form.startedAtValue)
            /\ req[p].payload.startedAt # Undefined
            /\ form.name = Str("", 0) =>
                   /\ req[p].payload.name = Undefined
                   /\ ~HasPath(req[p].result.issues, "name")
            /\ Unparsable(form.startedAtValue) =>
                   /\ Done(p)
                   /\ ~req[p].result.success /\ req[p].origin = "validator"
                   /\ HasPath(req[p].result.issues, "startedAt"))
    /\ [][/\ (form.kind = "edit" /\ form.name = Str("", 0)) =>
                 \A k \in Positions :
                     workouts[k] # NoRow =>
                         (workouts'[k] # NoRow /\ workouts'[k].name = workouts[k].name)
          /\ (form.kind = "edit" /\ Unparsable(form.startedAtValue)) =>
                 workouts' = workouts
          /\ \A p \in EditCalls :
                 (Settles(p) /\ Unparsable(form.startedAtValue) /\ Done(p)) =>
                     \/ HasPath(form'.validationIssues, "startedAt")
                     \/ form'.error = UnexpectedError]_vars

\* The edit form was submitted with the name emptied and the time cleared:
\* it shows an issue for 'startedAt' and none for 'name', and the stored
\* workout is as it was.
EditPayloadWitness ==
    /\ form.kind = "edit" /\ form.isDirty /\ ~form.loading
    /\ form.name = Str("", 0) /\ form.startedAtValue = Str("", 0)
    /\ HasPath(form.validationIssues, "startedAt")
    /\ ~HasPath(form.validationIssues, "name")
    /\ workouts[1] = StoredRow(1, "user_A", 1)

====
